---------------------------- MODULE Spec2Model ----------------------------
(***************************************************************************)
(* A model of src/app.py, the scraper that flattens the OGY 2022 polling   *)
(* station documents of vtr.valasztas.hu into two tables.                  *)
(*                                                                         *)
(* Representation.                                                         *)
(*  - A Python str is a sequence of one-character strings.  None, where a  *)
(*    str may be absent, is the one-element sequence None.                 *)
(*  - A dict read with .get() is a function; an absent key is a name that  *)
(*    is not in its DOMAIN.                                                *)
(*  - A pandas DataFrame is a record [cols, rows]: the set of its column   *)
(*    names and the sequence of its rows, each a function on cols.  A      *)
(*    missing cell holds NaN.  The order of the columns is not modelled.   *)
(*  - The codes maz, taz, evk and sorsz are naturals standing for the      *)
(*    zero padded strings of the documents; 0 stands for the empty string, *)
(*    which sorts before every other string.                               *)
(*  - fetch_json_with_log returns None and logs ok = False for a transport *)
(*    error, a status other than 200 and a body that is not JSON alike:    *)
(*    NoDoc.  It returns None and logs ok = True for the JSON body null:   *)
(*    NullBody.  Otherwise it returns the document.  requests.get is       *)
(*    called without a timeout (line 120): a request the server never      *)
(*    answers does not return, and the run stays in it.  fetched keeps, for *)
(*    each record of http_log, whether the call returned a document; the   *)
(*    code has no such list, it is what the callers test at lines 157-161, *)
(*    275 and 313.                                                         *)
(*  - A value of the progress bar is the pair of a numerator and a         *)
(*    denominator: 0/1 and 5/100 of lines 519 and 527, idx/total of the    *)
(*    loop, 1/1 of line 540.                                               *)
(*  - Line 496 of src/app.py lacks the parenthesis that closes the call of *)
(*    rename, so the file as written raises SyntaxError when it is         *)
(*    compiled: no statement of it runs and build_df_from_all_pairs is     *)
(*    never defined.  That is the initial state pc = "SyntaxError", which  *)
(*    no step leaves.  The other initial states, pc = "start", are those   *)
(*    of the file with the call closed; every step of a run below, and     *)
(*    every property of one, is of the file so closed.                     *)
(***************************************************************************)
EXTENDS Integers, Sequences, FiniteSets, TLC

VARIABLES
  \* the run of the Streamlit handler (lines 517-595)
  pc, telep, egyeni_list, listak_list, jlcs, szervezetek, test_mode, test_limit,
  df_constituencies, pairs, total, idx,
  szk_rows, base_rows, cand_party_rows, list_rows,
  sample_szk_raw, sample_jkv_raw, progress, http_log, fetched,
  df_results, df_info,
  \* slugify applied to one label
  name, slug,
  \* canonical_party_name applied to one label, and again to its result
  raw, once, twice,
  \* build_constituency_id_mapping run on one roster, and run again on a reordering
  roster, ids, prev_ids, runs

runVars == << pc, telep, egyeni_list, listak_list, jlcs, szervezetek, test_mode,
              test_limit, df_constituencies, pairs, total, idx, szk_rows, base_rows,
              cand_party_rows, list_rows, sample_szk_raw, sample_jkv_raw, progress,
              http_log, fetched, df_results, df_info >>
slugVars == << name, slug >>
canonVars == << raw, once, twice >>
groupVars == << roster, ids, prev_ids, runs >>
vars == << runVars, slugVars, canonVars, groupVars >>

---------------------------------------------------------------------------
(* Python strings *)

None == << "<None>" >>

\* The letters that str.lower() changes, and at the same place of LowerLetters
\* what it makes of them: the letters of Latin-1, and four letters that are no
\* Latin-1 characters and are written by their code points, U+0150 and U+0170
\* (the long umlauts of Hungarian), U+0178 and U+039C (what str.upper() makes
\* of two letters of Latin-1).  A character outside these tables has no case
\* here.
UpperLetters ==
  <<"A","B","C","D","E","F","G","H","I","J","K","L","M","N","O","P","Q","R",
     "S","T","U","V","W","X","Y","Z","À","Á","Â","Ã","Ä","Å","Æ","Ç","È","É",
     "Ê","Ë","Ì","Í","Î","Ï","Ð","Ñ","Ò","Ó","Ô","Õ","Ö","Ø","Ù","Ú","Û","Ü",
     "Ý","Þ","U+0150","U+0170","U+0178","U+039C" >>
\* The letters that str.upper() changes.  The last two have no place in
\* UpperLetters: the upper case of the micro sign is U+039C, whose lower case is
\* U+03BC, and the upper case of the sharp s is "SS".
LowerLetters ==
  <<"a","b","c","d","e","f","g","h","i","j","k","l","m","n","o","p","q","r",
     "s","t","u","v","w","x","y","z","à","á","â","ã","ä","å","æ","ç","è","é",
     "ê","ë","ì","í","î","ï","ð","ñ","ò","ó","ô","õ","ö","ø","ù","ú","û","ü",
     "ý","þ","U+0151","U+0171","ÿ","U+03BC","µ","ß" >>
\* the ordinal indicators are cased and have no other case
OtherCased == { "ª", "º" }
\* What s.strip() removes, line 22 and line 103; the characters that are not
\* printable are written by their code points.
Whitespace ==
  { " ", "\t", "\n", "\r", "U+000B", "U+000C", "U+001C", "U+001D", "U+001E", "U+001F",
    "U+0085", "U+00A0", "U+1680", "U+2000", "U+2001", "U+2002", "U+2003", "U+2004",
    "U+2005", "U+2006", "U+2007", "U+2008", "U+2009", "U+200A", "U+2028", "U+2029",
    "U+202F", "U+205F", "U+3000" }

IsUpper(ch) == \E i \in 1..Len(UpperLetters) : UpperLetters[i] = ch
IsLower(ch) == \E i \in 1..Len(LowerLetters) : LowerLetters[i] = ch
IsCased(ch) == IsUpper(ch) \/ IsLower(ch) \/ ch \in OtherCased
LowerChar(ch) ==
  IF IsUpper(ch)
    THEN LowerLetters[CHOOSE i \in 1..Len(UpperLetters) : UpperLetters[i] = ch]
    ELSE ch
\* the upper case and the title case of a character, a string of one or two
UpperSeq(ch) ==
  IF ch = "ß" THEN << "S", "S" >>
  ELSE IF ch = "µ" THEN << "U+039C" >>
  ELSE IF IsLower(ch)
    THEN << UpperLetters[CHOOSE i \in 1..Len(LowerLetters) : LowerLetters[i] = ch] >>
    ELSE << ch >>
TitleSeq(ch) == IF ch = "ß" THEN << "S", "s" >> ELSE UpperSeq(ch)

\* the strings of a sequence in a row
RECURSIVE Concat(_)
Concat(ss) == IF ss = << >> THEN << >> ELSE Head(ss) \o Concat(Tail(ss))

\* str.lower(), str.upper()
StrLower(s) == [i \in 1..Len(s) |-> LowerChar(s[i])]
StrUpper(s) == Concat([i \in 1..Len(s) |-> UpperSeq(s[i])])

\* str.title(): a cased character is in title case when the character before it
\* is not cased, and lower case otherwise.
StrTitle(s) ==
  Concat([i \in 1..Len(s) |->
            IF i > 1 /\ IsCased(s[i-1]) THEN << LowerChar(s[i]) >> ELSE TitleSeq(s[i])])

\* str.lstrip(chars), str.rstrip(chars), str.strip(chars)
RECURSIVE LStrip(_, _)
LStrip(s, chars) ==
  IF s # << >> /\ Head(s) \in chars THEN LStrip(Tail(s), chars) ELSE s
RECURSIVE RStrip(_, _)
RStrip(s, chars) ==
  IF s # << >> /\ s[Len(s)] \in chars
    THEN RStrip(SubSeq(s, 1, Len(s) - 1), chars) ELSE s
Strip(s, chars) == RStrip(LStrip(s, chars), chars)

\* s.startswith(p)
StartsWith(s, p) == Len(p) <= Len(s) /\ SubSeq(s, 1, Len(p)) = p

\* p in s
Contains(s, p) ==
  \E i \in 1..(Len(s) - Len(p) + 1) : SubSeq(s, i, i + Len(p) - 1) = p

\* s.replace(old, new) for a non-empty old: the occurrences that do not overlap,
\* from the left.
RECURSIVE Replace(_, _, _)
Replace(s, old, new) ==
  IF s = << >> THEN << >>
  ELSE IF StartsWith(s, old)
    THEN new \o Replace(SubSeq(s, Len(old) + 1, Len(s)), old, new)
    ELSE << Head(s) >> \o Replace(Tail(s), old, new)

\* for ch in chars: s = s.replace(ch, new)
RECURSIVE ReplaceEach(_, _, _)
ReplaceEach(s, chars, new) ==
  IF chars = << >> THEN s
  ELSE ReplaceEach(Replace(s, << Head(chars) >>, new), Tail(chars), new)

---------------------------------------------------------------------------
(* slugify, lines 19-30 *)

Underscore == << "_" >>
Unknown == << "u","n","k","n","o","w","n" >>
\* "U+2019", "U+201E" and "U+201D" stand for the three quotation marks of line 23
\* that are no Latin-1 characters.
SlugToUnderscore == << " ", "-", "/", "(", ")", "U+2019", "'", "U+201E", "U+201D" >>
SlugDropped == << ",", ".", ":", ";" >>

\* while "__" in s: s = s.replace("__", "_")
RECURSIVE CollapseUnderscores(_)
CollapseUnderscores(s) ==
  IF Contains(s, Underscore \o Underscore)
    THEN CollapseUnderscores(Replace(s, Underscore \o Underscore, Underscore))
    ELSE s

\* s = s.strip("_"), and a strip of the left end alone
LeftStripUnderscores(s) == LStrip(s, { "_" })
StripUnderscores(s) == Strip(s, { "_" })

\* return s or "unknown"
OrUnknown(s) == IF s = << >> THEN Unknown ELSE s

slugify(n) ==
  IF n = None THEN Unknown
  ELSE LET s1 == StrLower(Strip(n, Whitespace))
           s2 == ReplaceEach(s1, SlugToUnderscore, Underscore)
           s3 == ReplaceEach(s2, SlugDropped, << >>)
           s4 == CollapseUnderscores(s3)
           s5 == StripUnderscores(s4)
       IN  OrUnknown(s5)

---------------------------------------------------------------------------
(* canonical_party_name, lines 36-68 and 99-115 *)

PARTY_NAME_MAP ==
  << << <<"D", "K", "-", "J", "O", "B", "B", "I", "K", "-", "M", "O", "M", "E", "N", "T", "U", "M", "-", "M", "S", "Z", "P", "-", "L", "M", "P", "-", "P", "Á", "R", "B", "E", "S", "Z", "É", "D">>,
        <<"U", "n", "i", "t", "e", "d", " ", "f", "o", "r", " ", "H", "u", "n", "g", "a", "r", "y">> >>,
     << <<"F", "I", "D", "E", "S", "Z", "-", "K", "D", "N", "P">>,
        <<"F", "i", "d", "e", "s", "z">> >>,
     << <<"O", "R", "Ö">>,
        <<"R", "u", "t", "h", "e", "n", "i", "a", "n", "s">> >>,
     << <<"B", "O", "L", "G", "Á", "R", " ", "O", "R", "S", "Z", "Á", "G", "O", "S", " ", "Ö", "N", "K", "O", "R", "M", "Á", "N", "Y", "Z", "A", "T">>,
        <<"B", "u", "l", "g", "a", "r", "i", "a", "n", "s">> >>,
     << <<"O", "H", "Ö">>,
        <<"C", "r", "o", "a", "t", "i", "a", "n", "s">> >>,
     << <<"M", "A", "G", "Y", "A", "R", "O", "R", "S", "Z", "Á", "G", "I", " ", "G", "Ö", "R", "Ö", "G", "Ö", "K", " ", "O", "R", "S", "Z", "Á", "G", "O", "S">>,
        <<"G", "r", "e", "e", "k", "s">> >>,
     << <<"U", "O", "Ö">>,
        <<"U", "k", "r", "a", "i", "n", "i", "a", "n", "s">> >>,
     << <<"O", "Ö", "Ö">>,
        <<"A", "r", "m", "e", "n", "i", "a", "n", "s">> >>,
     << <<"M", "N", "O", "Ö">>,
        <<"G", "e", "r", "m", "a", "n", "s">> >>,
     << <<"O", "L", "Ö">>,
        <<"P", "o", "l", "e", "s">> >>,
     << <<"O", "R", "S", "Z", "Á", "G", "O", "S", " ", "S", "Z", "L", "O", "V", "Á", "K", " ", "Ö", "N", "K">>,
        <<"S", "l", "o", "v", "a", "k", "s">> >>,
     << <<"M", "I", " ", "H", "A", "Z", "Á", "N", "K">>,
        <<"O", "u", "r", " ", "H", "o", "m", "e", "l", "a", "n", "d">> >>,
     << <<"M", "K", "K", "P">>,
        <<"T", "w", "o", "-", "T", "a", "i", "l", "e", "d", " ", "D", "o", "g">> >>,
     << <<"M", "E", "M", "O">>,
        <<"S", "o", "l", "u", "t", "i", "o", "n">> >>,
     << <<"N", "O", "R", "M", "Á", "L", "I", "S", " ", "P", "Á", "R", "T">>,
        <<"N", "o", "r", "m", "a", "l", " ", "L", "i", "f", "e">> >> >>

MINORITY_KEYWORDS ==
  << << <<"N", "É", "M", "E", "T">>, <<"G", "e", "r", "m", "a", "n", "s">> >>,
     << <<"S", "Z", "L", "O", "V", "Á", "K">>, <<"S", "l", "o", "v", "a", "k", "s">> >>,
     << <<"B", "O", "L", "G", "Á", "R">>, <<"B", "u", "l", "g", "a", "r", "i", "a", "n", "s">> >>,
     << <<"G", "Ö", "R", "Ö", "G">>, <<"G", "r", "e", "e", "k", "s">> >>,
     << <<"U", "K", "R", "Á", "N">>, <<"U", "k", "r", "a", "i", "n", "i", "a", "n", "s">> >>,
     << <<"H", "O", "R", "V", "Á", "T">>, <<"C", "r", "o", "a", "t", "i", "a", "n", "s">> >>,
     << <<"S", "Z", "E", "R", "B">>, <<"S", "e", "r", "b", "s">> >>,
     << <<"R", "O", "M", "A">>, <<"R", "o", "m", "a">> >>,
     << <<"S", "Z", "L", "O", "V", "É", "N">>, <<"S", "l", "o", "v", "e", "n", "e", "s">> >>,
     << <<"L", "E", "N", "G", "Y", "E", "L">>, <<"P", "o", "l", "e", "s">> >>,
     << <<"Ö", "R", "M", "É", "N", "Y">>, <<"A", "r", "m", "e", "n", "i", "a", "n", "s">> >> >>

UnknownLabel == << "U","n","k","n","o","w","n" >>

\* key in PARTY_NAME_MAP, PARTY_NAME_MAP[key]
InPartyMap(key) == \E i \in 1..Len(PARTY_NAME_MAP) : PARTY_NAME_MAP[i][1] = key
PartyMapAt(key) ==
  PARTY_NAME_MAP[CHOOSE i \in 1..Len(PARTY_NAME_MAP) : PARTY_NAME_MAP[i][1] = key][2]

\* for kw, eng in MINORITY_KEYWORDS.items(): if kw in key: return eng
KeywordHits(key) ==
  { i \in 1..Len(MINORITY_KEYWORDS) : Contains(key, MINORITY_KEYWORDS[i][1]) }
FirstKeyword(key) ==
  MINORITY_KEYWORDS[CHOOSE i \in KeywordHits(key) :
                      \A j \in KeywordHits(key) : i <= j][2]

\* return raw.title(), and the label in upper case
UpperFallback(r) == StrUpper(r)
TitleFallback(r) == StrTitle(r)

canonical_party_name(r) ==
  IF r = None \/ r = << >> THEN UnknownLabel
  ELSE LET key == StrUpper(Strip(r, Whitespace))
       IN  IF InPartyMap(key) THEN PartyMapAt(key)
           ELSE IF KeywordHits(key) # {} THEN FirstKeyword(key)
           ELSE TitleFallback(r)

\* the column names the code writes as literals
c_maz == <<"m","a","z">>
c_taz == <<"t","a","z">>
c_sorsz == <<"s","o","r","s","z">>
c_szk_nev == <<"s","z","k","_","n","e","v">>
c_evk == <<"e","v","k">>
c_evk_nev == <<"e","v","k","_","n","e","v">>
c_cim == <<"c","i","m">>
c_akadaly == <<"a","k","a","d","a","l","y">>
c_szamlKijelolt == <<"s","z","a","m","l","K","i","j","e","l","o","l","t">>
c_atjKijelolt == <<"a","t","j","K","i","j","e","l","o","l","t">>
c_telepSzintu == <<"t","e","l","e","p","S","z","i","n","t","u">>
c_vp_osszes_egyeni == <<"v","p","_","o","s","s","z","e","s","_","e","g","y","e","n","i">>
c_szavazott_osszesen_egyeni == <<"s","z","a","v","a","z","o","t","t","_","o","s","s","z","e","s","e","n","_","e","g","y","e","n","i">>
c_szavazott_osszesen_szaz_egyeni == <<"s","z","a","v","a","z","o","t","t","_","o","s","s","z","e","s","e","n","_","s","z","a","z","_","e","g","y","e","n","i">>
c_szl_ervenyes_egyeni == <<"s","z","l","_","e","r","v","e","n","y","e","s","_","e","g","y","e","n","i">>
c_szl_ervenytelen_egyeni == <<"s","z","l","_","e","r","v","e","n","y","t","e","l","e","n","_","e","g","y","e","n","i">>
c_vp_osszes_lista == <<"v","p","_","o","s","s","z","e","s","_","l","i","s","t","a">>
c_szavazott_osszesen_lista == <<"s","z","a","v","a","z","o","t","t","_","o","s","s","z","e","s","e","n","_","l","i","s","t","a">>
c_szavazott_osszesen_szaz_lista == <<"s","z","a","v","a","z","o","t","t","_","o","s","s","z","e","s","e","n","_","s","z","a","z","_","l","i","s","t","a">>
c_szl_ervenyes_lista == <<"s","z","l","_","e","r","v","e","n","y","e","s","_","l","i","s","t","a">>
c_szl_ervenytelen_lista == <<"s","z","l","_","e","r","v","e","n","y","t","e","l","e","n","_","l","i","s","t","a">>
c_constituency_id == <<"c","o","n","s","t","i","t","u","e","n","c","y","_","i","d">>

p_letszam == <<"l","e","t","s","z","a","m","_">>
p_votes == <<"v","o","t","e","s","_">>
p_votes_individual_party == <<"v","o","t","e","s","_","i","n","d","i","v","i","d","u","a","l","_","p","a","r","t","y","_">>
p_votes_list == <<"v","o","t","e","s","_","l","i","s","t","_">>
p_candidate == <<"c","a","n","d","i","d","a","t","e","_">>
s_name == <<"_","n","a","m","e">>
t_comp == <<"c","o","m","p">>
t_party == <<"p","a","r","t","y">>
t_minority == <<"m","i","n","o","r","i","t","y">>
k_indulo == <<"i","n","d","u","l","o">>
k_honos == <<"h","o","n","o","s">>
s_x == <<"_","x">>
s_y == <<"_","y">>
UNKNOWN == <<"U","N","K","N","O","W","N">>
tip_K == <<"K">>
tip_O == <<"O">>
tip_N == <<"N">>
tip_X == <<"X">>

COLUMN_RENAME_MAP ==
  (<<"s","z","k","_","n","e","v">>
        :> <<"p","o","l","l","i","n","g","_","s","t","a","t","i","o","n","_","n","a","m","e">>)
  @@ (<<"e","v","k">>
        :> <<"c","o","n","s","t","i","t","u","e","n","c","y","_","c","o","d","e">>)
  @@ (<<"e","v","k","_","n","e","v">>
        :> <<"c","o","n","s","t","i","t","u","e","n","c","y","_","n","a","m","e">>)
  @@ (<<"c","i","m">>
        :> <<"p","o","l","l","i","n","g","_","s","t","a","t","i","o","n","_","a","d","d","r","e","s","s">>)
  @@ (<<"a","k","a","d","a","l","y">>
        :> <<"a","c","c","e","s","s","i","b","l","e","_","f","o","r","_","d","i","s","a","b","l","e","d">>)
  @@ (<<"s","z","a","m","l","K","i","j","e","l","o","l","t">>
        :> <<"d","e","s","i","g","n","a","t","e","d","_","c","o","u","n","t","i","n","g","_","s","t","a","t","i","o","n">>)
  @@ (<<"a","t","j","K","i","j","e","l","o","l","t">>
        :> <<"d","e","s","i","g","n","a","t","e","d","_","t","r","a","n","s","f","e","r","_","s","t","a","t","i","o","n">>)
  @@ (<<"t","e","l","e","p","S","z","i","n","t","u">>
        :> <<"m","u","n","i","c","i","p","a","l","i","t","y","_","l","e","v","e","l","_","s","t","a","t","i","o","n">>)
  @@ (<<"l","e","t","s","z","a","m","_","i","n","d","u","l","o">>
        :> <<"e","l","e","c","t","o","r","a","t","e","_","i","n","i","t","i","a","l">>)
  @@ (<<"l","e","t","s","z","a","m","_","h","o","n","o","s">>
        :> <<"e","l","e","c","t","o","r","a","t","e","_","r","e","s","i","d","e","n","t">>)
  @@ (<<"l","e","t","s","z","a","m","_","a","t","j","e","l">>
        :> <<"e","l","e","c","t","o","r","a","t","e","_","t","r","a","n","s","f","e","r","r","e","d","_","i","n">>)
  @@ (<<"l","e","t","s","z","a","m","_","a","t","j","e","l","I","n","n","e","n">>
        :> <<"e","l","e","c","t","o","r","a","t","e","_","t","r","a","n","s","f","e","r","r","e","d","_","o","u","t">>)
  @@ (<<"l","e","t","s","z","a","m","_","o","s","s","z","e","s","e","n">>
        :> <<"e","l","e","c","t","o","r","a","t","e","_","t","o","t","a","l">>)
  @@ (<<"v","p","_","o","s","s","z","e","s","_","e","g","y","e","n","i">>
        :> <<"e","l","i","g","i","b","l","e","_","v","o","t","e","r","s","_","i","n","d","i","v","i","d","u","a","l">>)
  @@ (<<"s","z","a","v","a","z","o","t","t","_","o","s","s","z","e","s","e","n","_","e","g","y","e","n","i">>
        :> <<"t","u","r","n","o","u","t","_","i","n","d","i","v","i","d","u","a","l">>)
  @@ (<<"s","z","a","v","a","z","o","t","t","_","o","s","s","z","e","s","e","n","_","s","z","a","z","_","e","g","y","e","n","i">>
        :> <<"t","u","r","n","o","u","t","_","r","a","t","e","_","p","c","t","_","i","n","d","i","v","i","d","u","a","l">>)
  @@ (<<"s","z","l","_","e","r","v","e","n","y","e","s","_","e","g","y","e","n","i">>
        :> <<"v","a","l","i","d","_","v","o","t","e","s","_","i","n","d","i","v","i","d","u","a","l">>)
  @@ (<<"s","z","l","_","e","r","v","e","n","y","t","e","l","e","n","_","e","g","y","e","n","i">>
        :> <<"i","n","v","a","l","i","d","_","v","o","t","e","s","_","i","n","d","i","v","i","d","u","a","l">>)
  @@ (<<"v","p","_","o","s","s","z","e","s","_","l","i","s","t","a">>
        :> <<"e","l","i","g","i","b","l","e","_","v","o","t","e","r","s","_","l","i","s","t">>)
  @@ (<<"s","z","a","v","a","z","o","t","t","_","o","s","s","z","e","s","e","n","_","l","i","s","t","a">>
        :> <<"t","u","r","n","o","u","t","_","l","i","s","t">>)
  @@ (<<"s","z","a","v","a","z","o","t","t","_","o","s","s","z","e","s","e","n","_","s","z","a","z","_","l","i","s","t","a">>
        :> <<"t","u","r","n","o","u","t","_","r","a","t","e","_","p","c","t","_","l","i","s","t">>)
  @@ (<<"s","z","l","_","e","r","v","e","n","y","e","s","_","l","i","s","t","a">>
        :> <<"v","a","l","i","d","_","v","o","t","e","s","_","l","i","s","t">>)
  @@ (<<"s","z","l","_","e","r","v","e","n","y","t","e","l","e","n","_","l","i","s","t","a">>
        :> <<"i","n","v","a","l","i","d","_","v","o","t","e","s","_","l","i","s","t">>)

\* dict.get(k, default)
Get(d, k, default) == IF k \in DOMAIN d THEN d[k] ELSE default

\* a < b for tuples of naturals of one length
RECURSIVE TupleLess(_, _)
TupleLess(a, b) ==
  /\ a # << >>
  /\ \/ Head(a) < Head(b)
     \/ Head(a) = Head(b) /\ TupleLess(Tail(a), Tail(b))

\* sorted(S) for a set of naturals, or of tuples of naturals
RECURSIVE SortedNats(_)
SortedNats(S) ==
  IF S = {} THEN << >>
  ELSE LET m == CHOOSE x \in S : \A y \in S : x <= y
       IN  << m >> \o SortedNats(S \ { m })
RECURSIVE SortedTuples(_)
SortedTuples(S) ==
  IF S = {} THEN << >>
  ELSE LET m == CHOOSE x \in S : \A y \in S \ { x } : TupleLess(x, y)
       IN  << m >> \o SortedTuples(S \ { m })

\* the elements of a sequence in the order of their first occurrence
RECURSIVE FirstSeen(_)
FirstSeen(s) ==
  IF s = << >> THEN << >>
  ELSE LET front == FirstSeen(SubSeq(s, 1, Len(s) - 1))
           last == s[Len(s)]
       IN  IF \E i \in 1..Len(front) : front[i] = last
             THEN front ELSE Append(front, last)

RECURSIVE SeqSum(_)
SeqSum(s) == IF s = << >> THEN 0 ELSE Head(s) + SeqSum(Tail(s))

\* the value of a cell that holds nothing; every recorded value is a natural
NaN == 0 - 1

\* pd.DataFrame()
EmptyFrame == [cols |-> {}, rows |-> << >>]

\* pd.DataFrame(rows) for a list of dicts
DataFrame(rows) ==
  LET cols == UNION { DOMAIN rows[i] : i \in 1..Len(rows) }
  IN  [cols |-> cols,
       rows |-> [i \in 1..Len(rows) |-> [c \in cols |-> Get(rows[i], c, NaN)]]]

\* df.empty
IsEmpty(df) == df.cols = {} \/ Len(df.rows) = 0

\* pivot_table aggfunc="sum", aggfunc="first"
AggLast(vals) == vals[Len(vals)]
AggSum(vals) == SeqSum(vals)
AggFirst(vals) == vals[1]
\* the aggfunc of a pivot_table, "sum" or "first"
Aggregate(aggfunc, vals) == IF aggfunc = "sum" THEN AggSum(vals) ELSE AggFirst(vals)

\* long.pivot_table(index=index, columns=..., values=..., aggfunc=aggfunc).reset_index()
\* for long rows [key, col, val], key the tuple of the row's index columns: one row
\* for each key, in sorted order, one column for each column name seen.
PivotTable(long, index, aggfunc) ==
  LET keys == SortedTuples({ long[i].key : i \in 1..Len(long) })
      names == { long[i].col : i \in 1..Len(long) }
      cols == { index[j] : j \in 1..Len(index) } \cup names
      place == [c \in cols \ names |-> CHOOSE j \in 1..Len(index) : index[j] = c]
      cell(k, n) ==
        LET hits == SelectSeq(long, LAMBDA r : r.key = k /\ r.col = n)
        IN  IF Len(hits) = 0 THEN NaN
            ELSE Aggregate(aggfunc, [j \in 1..Len(hits) |-> hits[j].val])
  IN  [cols |-> cols,
       rows |-> [i \in 1..Len(keys) |->
                   [c \in cols |-> IF c \in names THEN cell(keys[i], c)
                                   ELSE keys[i][place[c]]]]]

\* left.merge(right, on=on, how="left") raises KeyError when a key is no column
MergeRaises(left, right, on) ==
  ~ (on \subseteq left.cols /\ on \subseteq right.cols)

\* the frame with the suffix put to the names of its columns in common
WithSuffix(df, common, suffix) ==
  IF common = {} THEN df
  ELSE LET to == [c \in df.cols |-> IF c \in common THEN c \o suffix ELSE c]
           from == [c \in { to[d] : d \in df.cols } |->
                      CHOOSE d \in df.cols : to[d] = c]
       IN  [cols |-> DOMAIN from,
            rows |-> [i \in 1..Len(df.rows) |->
                        [c \in DOMAIN from |-> df.rows[i][from[c]]]]]

\* left.merge(right, on=on, how="left"): every left row, once for each right row
\* with the same key, or once with empty cells when there is none.  A column of
\* both frames that is no key gets the suffixes _x and _y.
MergeLeft(left, right, on) ==
  LET common == (left.cols \cap right.cols) \ on
      l == WithSuffix(left, common, s_x)
      r == WithSuffix(right, common, s_y)
      blank == [c \in r.cols \ on |-> NaN]
      rowsFor(lr) ==
        LET matches == SelectSeq(r.rows, LAMBDA rr : \A k \in on : rr[k] = lr[k])
        IN  IF Len(matches) = 0 THEN << lr @@ blank >>
            ELSE [j \in 1..Len(matches) |-> lr @@ matches[j]]
  IN  [cols |-> l.cols \cup r.cols,
       rows |-> Concat([i \in 1..Len(l.rows) |-> rowsFor(l.rows[i])])]

\* df[cols]
Select(df, cols) ==
  [cols |-> cols,
   rows |-> [i \in 1..Len(df.rows) |-> [c \in cols |-> df.rows[i][c]]]]

\* df.rename(columns=COLUMN_RENAME_MAP)
Renamed(c) == Get(COLUMN_RENAME_MAP, c, c)
Rename(df) ==
  LET names == { << d, Renamed(d) >> : d \in df.cols }
      cols == { p[2] : p \in names }
      from(c) == (CHOOSE p \in names : p[2] = c)[1]
  IN  [cols |-> cols,
       rows |-> [i \in 1..Len(df.rows) |-> [c \in cols |-> df.rows[i][from(c)]]]]

---------------------------------------------------------------------------
(* The party labels of the documents *)

\* A roster entry: candidate 1 stands for FIDESZ-KDNP, any other candidate has
\* no jlcs_nev.  A name is a number, 0 for the empty name.
Candidate(maz, evk, ej_id) ==
  IF ej_id = 1
    THEN [maz |-> maz, evk |-> evk, ej_id |-> ej_id,
          jlcs_nev |-> PARTY_NAME_MAP[2][1], neve |-> 1]
    ELSE [maz |-> maz, evk |-> evk, ej_id |-> ej_id, neve |-> 2]

\* The entries of ListakEsJeloltek.json: the party list of MKKP, and a minority
\* list without a type.
Lista1 == [tl_id |-> 1, jlcs_nev |-> PARTY_NAME_MAP[13][1], lista_tip |-> tip_O]
Lista2 == [tl_id |-> 2, jlcs_nev |-> MINORITY_KEYWORDS[2][1]]

\* slugify(canonical_party_name(label)), lines 180-181, 354-355 and 375-376; the
\* slugs of the documents' labels are computed once.
DocLabels == { UNKNOWN, Candidate(1, 1, 1).jlcs_nev, Lista1.jlcs_nev, Lista2.jlcs_nev }
SlugOfDocLabel == [l \in DocLabels |-> slugify(canonical_party_name(l))]
ColumnSlug(label) ==
  IF label \in DocLabels THEN SlugOfDocLabel[label]
  ELSE slugify(canonical_party_name(label))

---------------------------------------------------------------------------
(* build_constituency_id_mapping, lines 166-222 *)

\* What a roster entry lacks is absent from its record.
jlcs_nev_of(c) == IF "jlcs_nev" \in DOMAIN c THEN c.jlcs_nev ELSE UNKNOWN
neve_of(c) == IF "neve" \in DOMAIN c THEN c.neve ELSE 0

\* lines 170-177: cand_by_const[(maz, evk)].add(ej_id); a dict keeps its keys in
\* the order of their first insertion
ArrivalOrder(list) == FirstSeen([i \in 1..Len(list) |-> << list[i].maz, list[i].evk >>])
CandKeys(list) == { << list[i].maz, list[i].evk >> : i \in 1..Len(list) }
cand_by_const(list) ==
  [k \in CandKeys(list) |->
     { list[i].ej_id : i \in { j \in 1..Len(list) : << list[j].maz, list[j].evk >> = k } }]

\* lines 180-182: the column of a candidate's name
CandidateCol(c) == p_candidate \o ColumnSlug(jlcs_nev_of(c)) \o s_name

\* line 198: for (maz, evk), ej_set in sorted(cand_by_const.items())
KeyOrder(list) == SortedTuples(CandKeys(list))

\* line 199: sig = tuple(sorted(ej_set))
SignatureBySize(ej_set) == << Cardinality(ej_set) >>
Signature(ej_set) == SortedNats(ej_set)

\* lines 194-203: the loop that hands out the ids
RECURSIVE AssignIds(_, _, _, _, _)
AssignIds(keys, by_const, candidate_sets, next_id, constituency_id_by_const) ==
  IF keys = << >> THEN constituency_id_by_const
  ELSE LET k == Head(keys)
           sig == Signature(by_const[k])
           fresh == sig \notin DOMAIN candidate_sets
           sets == IF fresh THEN candidate_sets @@ (sig :> next_id) ELSE candidate_sets
       IN  AssignIds(Tail(keys), by_const, sets,
                     IF fresh THEN next_id + 1 ELSE next_id,
                     constituency_id_by_const @@ (k :> sets[sig]))

constituency_id_by_const(list) ==
  AssignIds(KeyOrder(list), cand_by_const(list), << >>, 1, << >>)

\* lines 205-208: df_const_ids, one row for each key in the order of the dict
df_const_ids(list) ==
  LET by == constituency_id_by_const(list)
      order == KeyOrder(list)
  IN  DataFrame([i \in 1..Len(order) |->
        (c_maz :> order[i][1]) @@ (c_evk :> order[i][2])
          @@ (c_constituency_id :> by[order[i]])])

\* lines 210-219: the candidates' names, one column for each party slug
df_const_cands_wide(list) ==
  IF Len(list) = 0 THEN [cols |-> { c_maz, c_evk }, rows |-> << >>]
  ELSE PivotTable([i \in 1..Len(list) |->
                     [key |-> << list[i].maz, list[i].evk >>,
                      col |-> CandidateCol(list[i]),
                      val |-> neve_of(list[i])]],
                  << c_maz, c_evk >>, "first")

\* line 221: the merge raises KeyError on a frame without columns
Raised == [raised |-> TRUE, cols |-> {}, rows |-> << >>]
Returned(df) == [raised |-> FALSE, cols |-> df.cols, rows |-> df.rows]

build_constituency_id_mapping(list) ==
  IF MergeRaises(df_const_ids(list), df_const_cands_wide(list), { c_maz, c_evk })
    THEN Raised
    ELSE Returned(MergeLeft(df_const_ids(list), df_const_cands_wide(list),
                            { c_maz, c_evk }))

---------------------------------------------------------------------------
(* fetch_json_with_log and load_global_meta, lines 117-163 *)

\* What fetch_json_with_log returns when it returns None: after a failure
\* (lines 128-146), and after an answer 200 whose body is the JSON null, which
\* resp.json() reads as None (lines 124-126).
NoDoc == [none |-> TRUE]
NullBody == [none |-> TRUE, null |-> TRUE]
NoDocs == { NoDoc, NullBody }
IsNone(doc) == "none" \in DOMAIN doc

\* lines 125 and 128-145: the record appended to log; ok is True whenever
\* resp.json() has read the body
LogEntry(doc, maz, taz, data) ==
  [doc |-> doc, maz |-> maz, taz |-> taz, ok |-> (~ IsNone(data) \/ data = NullBody)]

\* lines 157-161: raw.get("list", []) if raw else []
ListOf(doc) == IF IsNone(doc) THEN << >> ELSE Get(doc, "list", << >>)

---------------------------------------------------------------------------
(* build_df_from_all_pairs, lines 225-498 *)

\* lines 235-240: cand_meta; a later roster entry replaces an earlier one
LastWith(list, field, id) ==
  list[CHOOSE i \in 1..Len(list) :
         /\ list[i][field] = id
         /\ \A j \in 1..Len(list) : list[j][field] = id => j <= i]
cand_meta(list) ==
  [id \in { list[i].ej_id : i \in 1..Len(list) } |->
     [jlcs_nev |-> jlcs_nev_of(LastWith(list, "ej_id", id))]]

\* lines 242-248: list_meta
list_meta(list) ==
  [id \in { list[i].tl_id : i \in 1..Len(list) } |->
     [jlcs_nev |-> jlcs_nev_of(LastWith(list, "tl_id", id)),
      lista_tip |-> Get(LastWith(list, "tl_id", id), "lista_tip", tip_X)]]

\* line 252: pairs = sorted({(row["maz"], row["taz"]) for row in telep})
SortedPairs(rows) ==
  SortedTuples({ << rows[i].maz, rows[i].taz >> : i \in 1..Len(rows) })

\* lines 253-254: pairs[:test_limit] in test mode
Truncated(ps, mode, limit) ==
  IF mode THEN SubSeq(ps, 1, IF limit < Len(ps) THEN limit ELSE Len(ps)) ELSE ps

\* line 264: total = len(pairs) if pairs else 1
TotalOf(ps) == IF Len(ps) > 0 THEN Len(ps) ELSE 1

\* lines 282-283: szk_data.get("data", szk_data).get("szavazokorok", [])
StationsOf(szk_data) == Get(Get(szk_data, "data", szk_data), "szavazokorok", << >>)

\* lines 285-290: evk_map; a later station of the same ordinal replaces the evk
evk_map(stations) ==
  [n \in { stations[i].sorszam : i \in 1..Len(stations) } |->
     Get(LastWith(stations, "sorszam", n), "evk", 0)]

\* lines 292-308: the row of one station
LetszamCells(letszam) ==
  [c \in { p_letszam \o k : k \in DOMAIN letszam } |->
     letszam[CHOOSE k \in DOMAIN letszam : p_letszam \o k = c]]
StationRow(maz, taz, sz) ==
  LetszamCells(Get(sz, "letszam", << >>))
    @@ (c_maz :> maz) @@ (c_taz :> taz) @@ (c_sorsz :> sz.sorszam)
    @@ (c_szk_nev :> Get(sz, "szk_nev", 0)) @@ (c_evk :> Get(sz, "evk", 0))
    @@ (c_evk_nev :> Get(sz, "evk_nev", 0)) @@ (c_cim :> Get(sz, "cim", 0))
    @@ (c_akadaly :> Get(sz, "akadaly", 0))
    @@ (c_szamlKijelolt :> Get(sz, "szamlKijelolt", 0))
    @@ (c_atjKijelolt :> Get(sz, "atjKijelolt", 0))
    @@ (c_telepSzintu :> Get(sz, "telepSzintu", 0))
StationRows(maz, taz, stations) ==
  [i \in 1..Len(stations) |-> StationRow(maz, taz, stations[i])]

\* lines 320-346: the turnout row of one record of the results document
BaseRow(rec, evks) ==
  (c_maz :> rec.maz) @@ (c_taz :> rec.taz) @@ (c_sorsz :> rec.sorsz)
    @@ (c_evk :> Get(evks, rec.sorsz, 0))
    @@ (c_vp_osszes_egyeni :> Get(rec.egyeni_jkv, "vp_osszes", 0))
    @@ (c_szavazott_osszesen_egyeni :> Get(rec.egyeni_jkv, "szavazott_osszesen", 0))
    @@ (c_szavazott_osszesen_szaz_egyeni :>
          Get(rec.egyeni_jkv, "szavazott_osszesen_szaz", 0))
    @@ (c_szl_ervenyes_egyeni :> Get(rec.egyeni_jkv, "szl_ervenyes", 0))
    @@ (c_szl_ervenytelen_egyeni :> Get(rec.egyeni_jkv, "szl_ervenytelen", 0))
    @@ (c_vp_osszes_lista :> Get(rec.listas_jkv, "vp_osszes", 0))
    @@ (c_szavazott_osszesen_lista :> Get(rec.listas_jkv, "szavazott_osszesen", 0))
    @@ (c_szavazott_osszesen_szaz_lista :>
          Get(rec.listas_jkv, "szavazott_osszesen_szaz", 0))
    @@ (c_szl_ervenyes_lista :> Get(rec.listas_jkv, "szl_ervenyes", 0))
    @@ (c_szl_ervenytelen_lista :> Get(rec.listas_jkv, "szl_ervenytelen", 0))
BaseRows(recs, evks) == [i \in 1..Len(recs) |-> BaseRow(recs[i], evks)]

\* lines 351-356: the column of a candidate's votes
PartyCol(ej_id, cands) ==
  p_votes_individual_party
    \o ColumnSlug(Get(Get(cands, ej_id, << >>), "jlcs_nev", UNKNOWN))

\* lines 369-377: the column of a list's votes
ListType(lista_tip) ==
  IF lista_tip = tip_K THEN t_comp
  ELSE IF lista_tip = tip_O THEN t_party
  ELSE IF lista_tip = tip_N THEN t_minority
  ELSE StrLower(lista_tip)
ListCol(tl_id, lists) ==
  p_votes_list
    \o ListType(Get(Get(lists, tl_id, << >>), "lista_tip", tip_X))
    \o Underscore
    \o ColumnSlug(Get(Get(lists, tl_id, << >>), "jlcs_nev", UNKNOWN))

\* lines 348-364: the long rows of one record's individual ballot
CandPartyRows(rec, evks, cands) ==
  LET tetelek == Get(rec.egyeni_jkv, "tetelek", << >>)
  IN  [i \in 1..Len(tetelek) |->
         [maz |-> rec.maz, taz |-> rec.taz, sorsz |-> rec.sorsz,
          evk |-> Get(evks, rec.sorsz, 0),
          party_col |-> PartyCol(tetelek[i].ej_id, cands),
          votes |-> Get(tetelek[i], "szavazat", 0)]]

\* lines 366-385: the long rows of one record's list ballot
ListRows(rec, evks, lists) ==
  LET tetelek == Get(rec.listas_jkv, "tetelek", << >>)
  IN  [i \in 1..Len(tetelek) |->
         [maz |-> rec.maz, taz |-> rec.taz, sorsz |-> rec.sorsz,
          evk |-> Get(evks, rec.sorsz, 0),
          list_col |-> ListCol(tetelek[i].tl_id, lists),
          votes |-> Get(tetelek[i], "szavazat", 0)]]

\* lines 393-413: the two pivots; an empty long frame gives pd.DataFrame()
Key4 == << c_maz, c_taz, c_sorsz, c_evk >>
KeyOf(r) == << r.maz, r.taz, r.sorsz, r.evk >>
df_cand_wide(long) ==
  IF Len(long) = 0 THEN EmptyFrame
  ELSE PivotTable([i \in 1..Len(long) |->
                     [key |-> KeyOf(long[i]), col |-> long[i].party_col,
                      val |-> long[i].votes]], Key4, "sum")
df_list_wide(long) ==
  IF Len(long) = 0 THEN EmptyFrame
  ELSE PivotTable([i \in 1..Len(long) |->
                     [key |-> KeyOf(long[i]), col |-> long[i].list_col,
                      val |-> long[i].votes]], Key4, "sum")

\* lines 418-430: the station rows joined with the turnout rows and the pivots
KeySet == { c_maz, c_taz, c_sorsz, c_evk }
JoinVotes(df, wide) == IF IsEmpty(wide) THEN df ELSE MergeLeft(df, wide, KeySet)
JoinedResults(stations, base, cands, lists) ==
  JoinVotes(JoinVotes(MergeLeft(DataFrame(stations), DataFrame(base), KeySet),
                      df_cand_wide(cands)),
            df_list_wide(lists))

\* lines 432-458: the columns of the info table
StationCols ==
  { c_maz, c_taz, c_sorsz, c_szk_nev, c_evk, c_evk_nev, c_cim, c_akadaly,
    c_szamlKijelolt, c_atjKijelolt, c_telepSzintu }
TurnoutCols ==
  { c_vp_osszes_egyeni, c_szavazott_osszesen_egyeni,
    c_szavazott_osszesen_szaz_egyeni, c_szl_ervenyes_egyeni,
    c_szl_ervenytelen_egyeni, c_vp_osszes_lista, c_szavazott_osszesen_lista,
    c_szavazott_osszesen_szaz_lista, c_szl_ervenyes_lista,
    c_szl_ervenytelen_lista }
AllCols(df) == df.cols
info_cols(df) ==
  (StationCols \cup { c \in df.cols : StartsWith(c, p_letszam) } \cup TurnoutCols)
    \cap df.cols

\* lines 460-496: the two tables returned
ResultsTable(joined, const) == Rename(MergeLeft(joined, const, { c_maz, c_evk }))
InfoTable(joined, const) ==
  Rename(MergeLeft(Select(joined, info_cols(joined)), const, { c_maz, c_evk }))

---------------------------------------------------------------------------
(* The inputs of the three functions checked on their own *)

MaxLen == 4
MaxRoster == 3

\* all sequences over A of length at most n
SeqsUpTo(A, n) == UNION { [1..k -> A] : k \in 0..n }

\* Labels for slugify: the blank and a white space that is not the blank, a
\* character replaced by "_", "_" itself, a character dropped, a lower case and
\* an upper case letter.
SlugAlphabet == { " ", "U+00A0", "-", "_", ",", "a", "B" }
SlugInputs == SeqsUpTo(SlugAlphabet, MaxLen) \cup { None }

\* Labels for canonical_party_name: the keys of PARTY_NAME_MAP, as written, in
\* lower case and padded with blanks; its values; labels around each minority
\* keyword; the empty label and None.
PartyKeys == { PARTY_NAME_MAP[i][1] : i \in 1..Len(PARTY_NAME_MAP) }
PartyValues == { PARTY_NAME_MAP[i][2] : i \in 1..Len(PARTY_NAME_MAP) }
KeywordLabels ==
  { pre \o MINORITY_KEYWORDS[i][1] \o post :
      i \in 1..Len(MINORITY_KEYWORDS),
      pre \in { << >>, << "A", " " >> },
      post \in { << >>, << " ", "l", "i", "s", "t", "a" >> } }
CanonInputs ==
  PartyKeys \cup { StrLower(k) : k \in PartyKeys }
    \cup { << " " >> \o k \o << " " >> : k \in PartyKeys }
    \cup PartyValues \cup KeywordLabels \cup { << >>, None }

\* Roster entries: the party label and the name follow the candidate id.
Maz == { 1, 2 }
Evk == { 1, 2 }
EjId == { 1, 2 }
Candidates == { Candidate(m, e, j) : m \in Maz, e \in Evk, j \in EjId }

---------------------------------------------------------------------------
(* The values of the variables a specification does not use *)

RunIdle ==
  /\ pc = "idle" /\ telep = << >> /\ egyeni_list = << >> /\ listak_list = << >>
  /\ jlcs = << >> /\ szervezetek = << >> /\ test_mode = FALSE /\ test_limit = 0
  /\ df_constituencies = Returned(EmptyFrame) /\ pairs = << >> /\ total = 0 /\ idx = 0
  /\ szk_rows = << >> /\ base_rows = << >> /\ cand_party_rows = << >>
  /\ list_rows = << >> /\ sample_szk_raw = NoDoc /\ sample_jkv_raw = NoDoc
  /\ progress = << >> /\ http_log = << >> /\ fetched = << >>
  /\ df_results = EmptyFrame /\ df_info = EmptyFrame
SlugIdle == name = None /\ slug = None
CanonIdle == raw = None /\ once = None /\ twice = None
GroupIdle == roster = << >> /\ ids = << >> /\ prev_ids = << >> /\ runs = 0

---------------------------------------------------------------------------
(* slugify on one label *)

SlugInit == name \in SlugInputs /\ slug = None /\ RunIdle /\ CanonIdle /\ GroupIdle

Slugify ==
  /\ slug = None
  /\ slug' = slugify(name)
  /\ UNCHANGED << name, runVars, canonVars, groupVars >>

SlugNext == Slugify
SpecSlug == SlugInit /\ [][SlugNext]_vars

---------------------------------------------------------------------------
(* canonical_party_name on one label, then on its own result *)

CanonInit == raw \in CanonInputs /\ once = None /\ twice = None
             /\ RunIdle /\ SlugIdle /\ GroupIdle

Canonicalize ==
  /\ once = None
  /\ once' = canonical_party_name(raw)
  /\ UNCHANGED << raw, twice, runVars, slugVars, groupVars >>

Recanonicalize ==
  /\ once # None /\ twice = None
  /\ twice' = canonical_party_name(once)
  /\ UNCHANGED << raw, once, runVars, slugVars, groupVars >>

CanonNext == Canonicalize \/ Recanonicalize
SpecCanon == CanonInit /\ [][CanonNext]_vars

---------------------------------------------------------------------------
(* build_constituency_id_mapping on one roster, then on reorderings of it *)

GroupInit == roster \in SeqsUpTo(Candidates, MaxRoster) /\ ids = << >>
             /\ prev_ids = << >> /\ runs = 0 /\ RunIdle /\ SlugIdle /\ CanonIdle

\* the roster with rows i and i+1 exchanged
Swapped(list, i) ==
  [j \in 1..Len(list) |-> IF j = i THEN list[i + 1]
                          ELSE IF j = i + 1 THEN list[i] ELSE list[j]]

Group ==
  /\ runs = 0
  /\ ids' = constituency_id_by_const(roster)
  /\ runs' = 1
  /\ UNCHANGED << roster, prev_ids, runVars, slugVars, canonVars >>

Regroup ==
  /\ runs > 0
  /\ \E i \in 1..(Len(roster) - 1) :
       /\ roster' = Swapped(roster, i)
       /\ ids' = constituency_id_by_const(Swapped(roster, i))
  /\ prev_ids' = ids
  /\ runs' = 2
  /\ UNCHANGED << runVars, slugVars, canonVars >>

GroupNext == Group \/ Regroup
SpecGroup == GroupInit /\ [][GroupNext]_vars

---------------------------------------------------------------------------
(* The documents the server may answer with *)

MaxTaz == 2
MaxLimit == 1

\* the test_limit the page passes, line 538
UiTestLimit == 50

\* Telepulesek.json.  The municipalities of a document in ascending order: those
\* of county 1 up to taz t, which the taz alone orders, or those of county 2
\* below taz t and municipality (1, t), which the maz orders against the taz.
\* The document lists them from the last to the first, and the last once more.
CountyPairs(t) == [i \in 1..t |-> << 1, i >>]
MixedPairs(t) == [i \in 1..t |-> IF i = 1 THEN << 1, t >> ELSE << 2, i - 1 >>]
TelepList(ps) ==
  [j \in 1..(Len(ps) + 1) |->
     LET p == IF j = Len(ps) + 1 THEN ps[Len(ps)] ELSE ps[Len(ps) + 1 - j]
     IN  [maz |-> p[1], taz |-> p[2]]]
TelepDocs ==
  NoDocs \cup { [hiba |-> 1] }
    \cup { [list |-> TelepList(CountyPairs(t))] : t \in 1..MaxTaz }
    \cup { [list |-> TelepList(MixedPairs(t))] : t \in 1..MaxTaz }

\* EgyeniJeloltek.json: no candidate, or two of the same constituency
EgyeniDocs ==
  NoDocs \cup { [list |-> << >>],
    [list |-> << Candidate(1, 1, 1), Candidate(1, 1, 2) >>] }

\* ListakEsJeloltek.json
ListakDocs == NoDocs \cup { [list |-> << Lista1, Lista2 >>] }

\* Jlcs.json and Szervezetek.json, which the run reads and does not use
OtherDocs == NoDocs \cup { [list |-> << >>] }

\* Szavazokorok-maz-taz.json: no station, or station 1 with a constituency and
\* an electorate and station 2 with neither; the payload at the top or under
\* "data".
Station1 ==
  [sorszam |-> 1, evk |-> 1, szk_nev |-> 1,
   letszam |-> (k_indulo :> 5) @@ (k_honos :> 4)]
Station2 == [sorszam |-> 2]
StationDocs(maz, taz) ==
  IF maz = 1 /\ taz = 1
    THEN { [szavazokorok |-> << >>],
           [data |-> [szavazokorok |-> << Station1, Station2 >>]] }
    ELSE { [data |-> [szavazokorok |-> << Station1, Station2 >>]] }

\* SzavkorJkv-maz-taz.json: record A of station 1 with three candidates, two of
\* them of no known party, and two lists; record B of station 2 with nothing but
\* its turnout; record C of station 1 again.  Municipality (1, 1) has every
\* document, the others the full ones.
RecordA(maz, taz) ==
  [maz |-> maz, taz |-> taz, sorsz |-> 1,
   egyeni_jkv |-> [szavazott_osszesen |-> 7,
                   tetelek |-> << [ej_id |-> 1, szavazat |-> 3],
                                  [ej_id |-> 2, szavazat |-> 4],
                                  [ej_id |-> 3, szavazat |-> 5] >>],
   listas_jkv |-> [tetelek |-> << [tl_id |-> 1, szavazat |-> 2],
                                  [tl_id |-> 2] >>]]
RecordB(maz, taz) ==
  [maz |-> maz, taz |-> taz, sorsz |-> 2,
   egyeni_jkv |-> [szavazott_osszesen |-> 6], listas_jkv |-> [vp_osszes |-> 9]]
RecordC(maz, taz) ==
  [maz |-> maz, taz |-> taz, sorsz |-> 1,
   egyeni_jkv |-> [tetelek |-> << [ej_id |-> 1, szavazat |-> 1] >>],
   listas_jkv |-> [tetelek |-> << [tl_id |-> 1, szavazat |-> 1],
                                  [tl_id |-> 1, szavazat |-> 2] >>]]
ResultDocs(maz, taz) ==
  IF maz = 1 /\ taz = 1
    THEN { [list |-> << RecordB(maz, taz) >>],
           [list |-> << RecordA(maz, taz), RecordB(maz, taz) >>],
           [list |-> << RecordA(maz, taz), RecordC(maz, taz) >>] }
    ELSE { [list |-> << RecordA(maz, taz), RecordB(maz, taz) >>] }

---------------------------------------------------------------------------
(* One run of the page's handler, lines 515-595 *)

\* The file as written stops at line 496 when it is compiled, before the page is
\* drawn.  With the call of line 496 closed: the button is pressed and the bar
\* stands at 0.0 (lines 515-522).  The page passes test_limit = 50 (line 538);
\* the limits up to MaxLimit are calls of build_df_from_all_pairs with another
\* value of its parameter test_limit.
Init ==
  /\ \/ /\ pc = "SyntaxError"
        /\ test_mode = FALSE /\ test_limit = UiTestLimit /\ progress = << >>
     \/ /\ pc = "start"
        /\ test_mode \in BOOLEAN
        /\ test_limit \in (IF test_mode THEN { UiTestLimit } \cup 1..MaxLimit
                                           ELSE { UiTestLimit })
        /\ progress = << << 0, 1 >> >>
  /\ telep = << >> /\ egyeni_list = << >> /\ listak_list = << >>
  /\ jlcs = << >> /\ szervezetek = << >>
  /\ df_constituencies = Returned(EmptyFrame) /\ pairs = << >> /\ total = 0 /\ idx = 0
  /\ szk_rows = << >> /\ base_rows = << >> /\ cand_party_rows = << >>
  /\ list_rows = << >> /\ sample_szk_raw = NoDoc /\ sample_jkv_raw = NoDoc
  /\ http_log = << >> /\ fetched = << >>
  /\ df_results = EmptyFrame /\ df_info = EmptyFrame
  /\ SlugIdle /\ CanonIdle /\ GroupIdle

loopVars == << szk_rows, base_rows, cand_party_rows, list_rows, sample_szk_raw,
               sample_jkv_raw, idx >>
metaVars == << telep, egyeni_list, listak_list, jlcs, szervezetek >>
otherVars == << slugVars, canonVars, groupVars >>

\* load_global_meta, lines 149-163, called at line 526, and the bar of line 527
LoadGlobalMeta ==
  /\ pc = "start"
  /\ \E telep_raw \in TelepDocs, egyeni_raw \in EgyeniDocs, listak_raw \in ListakDocs,
        jlcs_raw \in OtherDocs, szervezetek_raw \in OtherDocs :
       /\ telep' = ListOf(telep_raw)
       /\ egyeni_list' = ListOf(egyeni_raw)
       /\ listak_list' = ListOf(listak_raw)
       /\ jlcs' = ListOf(jlcs_raw)
       /\ szervezetek' = ListOf(szervezetek_raw)
       /\ http_log' = << LogEntry("Telepulesek", 0, 0, telep_raw),
                         LogEntry("EgyeniJeloltek", 0, 0, egyeni_raw),
                         LogEntry("ListakEsJeloltek", 0, 0, listak_raw),
                         LogEntry("Jlcs", 0, 0, jlcs_raw),
                         LogEntry("Szervezetek", 0, 0, szervezetek_raw) >>
       /\ fetched' = << ~ IsNone(telep_raw), ~ IsNone(egyeni_raw), ~ IsNone(listak_raw),
                        ~ IsNone(jlcs_raw), ~ IsNone(szervezetek_raw) >>
  /\ progress' = Append(progress, << 5, 100 >>)
  /\ pc' = "loaded"
  /\ UNCHANGED << test_mode, test_limit, df_constituencies, pairs, total, loopVars,
                  df_results, df_info, otherVars >>

\* load_global_meta in which the request for one of the five documents is never
\* answered: requests.get (line 120) does not return, the documents before it
\* are logged and nothing is returned to the page
MetaFetchStalls ==
  /\ pc = "start"
  /\ \E telep_raw \in TelepDocs, egyeni_raw \in EgyeniDocs, listak_raw \in ListakDocs,
        jlcs_raw \in OtherDocs, k \in 0..4 :
       /\ http_log' = SubSeq(<< LogEntry("Telepulesek", 0, 0, telep_raw),
                                LogEntry("EgyeniJeloltek", 0, 0, egyeni_raw),
                                LogEntry("ListakEsJeloltek", 0, 0, listak_raw),
                                LogEntry("Jlcs", 0, 0, jlcs_raw) >>, 1, k)
       /\ fetched' = SubSeq(<< ~ IsNone(telep_raw), ~ IsNone(egyeni_raw),
                               ~ IsNone(listak_raw), ~ IsNone(jlcs_raw) >>, 1, k)
  /\ pc' = "stalled in load_global_meta"
  /\ UNCHANGED << metaVars, test_mode, test_limit, df_constituencies, pairs, total,
                  loopVars, progress, df_results, df_info, otherVars >>

\* build_df_from_all_pairs up to its loop, lines 235-264
Begin ==
  /\ pc = "loaded"
  /\ df_constituencies' = build_constituency_id_mapping(egyeni_list)
  /\ IF df_constituencies'.raised
       THEN pc' = "raised in build_constituency_id_mapping"
            /\ UNCHANGED << pairs, total >>
       ELSE /\ pc' = "loop"
            /\ pairs' = Truncated(SortedPairs(telep), test_mode, test_limit)
            /\ total' = TotalOf(pairs')
  /\ UNCHANGED << metaVars, test_mode, test_limit, loopVars, progress, http_log,
                  fetched, df_results, df_info, otherVars >>

\* one turn of the loop in which a request is never answered, lines 266-312:
\* that for the station document, or that for the results document after the
\* stations are read; requests.get (line 120) does not return and the bar is
\* not moved
FetchStalls ==
  /\ pc = "loop" /\ idx < Len(pairs)
  /\ idx' = idx + 1
  /\ \/ UNCHANGED << http_log, fetched, szk_rows, sample_szk_raw >>
     \/ \E szk_data \in StationDocs(pairs[idx'][1], pairs[idx'][2]) :
          /\ sample_szk_raw' = IF IsNone(sample_szk_raw) THEN szk_data
                               ELSE sample_szk_raw
          /\ szk_rows' = szk_rows
               \o StationRows(pairs[idx'][1], pairs[idx'][2], StationsOf(szk_data))
          /\ http_log' = Append(http_log,
                                LogEntry("Szavazokorok", pairs[idx'][1], pairs[idx'][2],
                                         szk_data))
          /\ fetched' = Append(fetched, TRUE)
  /\ pc' = "stalled in build_df_from_all_pairs"
  /\ UNCHANGED << metaVars, test_mode, test_limit, df_constituencies, pairs, total,
                  base_rows, cand_party_rows, list_rows, sample_jkv_raw, progress,
                  df_results, df_info, otherVars >>

\* one turn of the loop in which the station document is not fetched,
\* lines 266-277
StationFetchFails ==
  /\ pc = "loop" /\ idx < Len(pairs)
  /\ idx' = idx + 1
  /\ \E szk_data \in NoDocs :
       http_log' = Append(http_log,
                          LogEntry("Szavazokorok", pairs[idx'][1], pairs[idx'][2], szk_data))
  /\ fetched' = Append(fetched, FALSE)
  /\ progress' = Append(progress, << idx', total >>)
  /\ UNCHANGED << pc, metaVars, test_mode, test_limit, df_constituencies, pairs, total,
                  szk_rows, base_rows, cand_party_rows, list_rows, sample_szk_raw,
                  sample_jkv_raw, df_results, df_info, otherVars >>

\* one turn in which the stations are read and the results document is not
\* fetched, lines 266-315
ResultsFetchFails ==
  /\ pc = "loop" /\ idx < Len(pairs)
  /\ idx' = idx + 1
  /\ \E szk_data \in StationDocs(pairs[idx'][1], pairs[idx'][2]), jkv_data \in NoDocs :
       /\ sample_szk_raw' = IF IsNone(sample_szk_raw) THEN szk_data ELSE sample_szk_raw
       /\ szk_rows' = szk_rows
            \o StationRows(pairs[idx'][1], pairs[idx'][2], StationsOf(szk_data))
       /\ http_log' = http_log
            \o << LogEntry("Szavazokorok", pairs[idx'][1], pairs[idx'][2], szk_data),
                  LogEntry("SzavkorJkv", pairs[idx'][1], pairs[idx'][2], jkv_data) >>
  /\ fetched' = fetched \o << TRUE, FALSE >>
  /\ progress' = Append(progress, << idx', total >>)
  /\ UNCHANGED << pc, metaVars, test_mode, test_limit, df_constituencies, pairs, total,
                  base_rows, cand_party_rows, list_rows, sample_jkv_raw, df_results,
                  df_info, otherVars >>

\* one turn in which both documents are read, lines 266-387
PairIngested ==
  /\ pc = "loop" /\ idx < Len(pairs)
  /\ idx' = idx + 1
  /\ \E szk_data \in StationDocs(pairs[idx'][1], pairs[idx'][2]),
        jkv_data \in ResultDocs(pairs[idx'][1], pairs[idx'][2]) :
       LET evks == evk_map(StationsOf(szk_data))
           recs == Get(jkv_data, "list", << >>)
           cands == cand_meta(egyeni_list)
           lists == list_meta(listak_list)
       IN  /\ sample_szk_raw' = IF IsNone(sample_szk_raw) THEN szk_data
                                ELSE sample_szk_raw
           /\ sample_jkv_raw' = IF IsNone(sample_jkv_raw) THEN jkv_data
                                ELSE sample_jkv_raw
           /\ szk_rows' = szk_rows
                \o StationRows(pairs[idx'][1], pairs[idx'][2], StationsOf(szk_data))
           /\ base_rows' = base_rows \o BaseRows(recs, evks)
           /\ cand_party_rows' = cand_party_rows
                \o Concat([i \in 1..Len(recs) |->
                             CandPartyRows(recs[i], evks, cands)])
           /\ list_rows' = list_rows
                \o Concat([i \in 1..Len(recs) |->
                             ListRows(recs[i], evks, lists)])
           /\ http_log' = http_log
                \o << LogEntry("Szavazokorok", pairs[idx'][1], pairs[idx'][2], szk_data),
                      LogEntry("SzavkorJkv", pairs[idx'][1], pairs[idx'][2], jkv_data) >>
  /\ fetched' = fetched \o << TRUE, TRUE >>
  /\ progress' = Append(progress, << idx', total >>)
  /\ UNCHANGED << pc, metaVars, test_mode, test_limit, df_constituencies, pairs, total,
                  df_results, df_info, otherVars >>

\* the frames built after the loop, lines 389-498
Finish ==
  /\ pc = "loop" /\ idx = Len(pairs)
  /\ IF IsEmpty(DataFrame(szk_rows))
       THEN pc' = "returned" /\ df_results' = EmptyFrame /\ df_info' = EmptyFrame
       ELSE IF MergeRaises(DataFrame(szk_rows), DataFrame(base_rows), KeySet)
         THEN pc' = "raised in build_df_from_all_pairs"
              /\ UNCHANGED << df_results, df_info >>
         ELSE LET joined == JoinedResults(szk_rows, base_rows, cand_party_rows,
                                          list_rows)
              IN  /\ pc' = "returned"
                  /\ df_results' = ResultsTable(joined, df_constituencies)
                  /\ df_info' = InfoTable(joined, df_constituencies)
  /\ UNCHANGED << metaVars, test_mode, test_limit, df_constituencies, pairs, total,
                  loopVars, progress, http_log, fetched, otherVars >>

\* the bar at 1.0 and what the page shows of the result, lines 540-595
Present ==
  /\ pc = "returned"
  /\ progress' = Append(progress, << 1, 1 >>)
  /\ pc' = IF IsEmpty(df_results) THEN "st.error" ELSE "downloads"
  /\ UNCHANGED << metaVars, test_mode, test_limit, df_constituencies, pairs, total,
                  loopVars, http_log, fetched, df_results, df_info, otherVars >>

Next ==
  \/ LoadGlobalMeta
  \/ MetaFetchStalls
  \/ Begin
  \/ FetchStalls
  \/ StationFetchFails
  \/ ResultsFetchFails
  \/ PairIngested
  \/ Finish
  \/ Present

Spec == Init /\ [][Next]_vars

\* The interpreter goes on with the loop: while a turn can end, by a request
\* that fails or by both documents read, the loop does not stand still before
\* it for ever.  Nothing makes a request return: a turn may as well be the step
\* FetchStalls, after which no turn can end.
LoopTurn == StationFetchFails \/ ResultsFetchFails \/ PairIngested
FairSpec == Spec /\ WF_vars(LoopTurn)

---------------------------------------------------------------------------
(* Properties of build_constituency_id_mapping, under SpecGroup *)

\* the candidate ids the roster registers under a key, and the keys it names
RegisteredIds(k) ==
  { roster[i].ej_id : i \in { j \in 1..Len(roster) : << roster[j].maz, roster[j].evk >> = k } }
RosterKeys == { << roster[i].maz, roster[i].evk >> : i \in 1..Len(roster) }

\* C1: every key of the roster gets an id, and two keys get the same id if and
\* only if the same set of candidate ids is registered under them.
C1_SameIdIffSameSet ==
  runs > 0 =>
    /\ DOMAIN ids = RosterKeys
    /\ \A k1, k2 \in RosterKeys :
         (ids[k1] = ids[k2]) <=> (RegisteredIds(k1) = RegisteredIds(k2))

\* a roster with two keys of one candidate set and a third key of another
C1_Witness ==
  /\ runs > 0
  /\ \E k1, k2, k3 \in RosterKeys :
       /\ k1 # k2 /\ RegisteredIds(k1) = RegisteredIds(k2) /\ ids[k1] = ids[k2]
       /\ RegisteredIds(k1) # RegisteredIds(k3) /\ ids[k1] # ids[k3]

\* C2: the mapping of a reordered roster is the mapping of the roster before; the
\* id of a key is one more than the number of candidate sets that occur under a
\* smaller key than the first key of its own set, whatever the order of the rows.
C2_OrderIndependent ==
  /\ runs = 2 => ids = prev_ids
  /\ runs > 0 =>
       \A k \in RosterKeys :
         LET first == CHOOSE f \in RosterKeys :
                        /\ RegisteredIds(f) = RegisteredIds(k)
                        /\ \A g \in RosterKeys \ { f } :
                             RegisteredIds(g) = RegisteredIds(k) => TupleLess(f, g)
         IN  ids[k] = 1 + Cardinality({ RegisteredIds(g) :
                                          g \in { h \in RosterKeys : TupleLess(h, first) } })

\* a roster regrouped after an exchange of rows, whose first row has the greater
\* key and another candidate set than its second row
C2_Witness ==
  /\ runs = 2 /\ Len(roster) >= 2
  /\ TupleLess(<< roster[2].maz, roster[2].evk >>, << roster[1].maz, roster[1].evk >>)
  /\ ids[<< roster[1].maz, roster[1].evk >>] = 2
  /\ ids[<< roster[2].maz, roster[2].evk >>] = 1

---------------------------------------------------------------------------
(* Properties of the run, under Spec and FairSpec *)

RECURSIVE SumOver(_, _)
SumOver(f, S) ==
  IF S = {} THEN 0
  ELSE LET x == CHOOSE y \in S : TRUE IN f[x] + SumOver(f, S \ { x })

LoopOver == pc = "loop" /\ idx = Len(pairs)
HasReturned == pc \in { "returned", "st.error", "downloads" }
RaisedInJoin == pc = "raised in build_df_from_all_pairs"
RaisedInMapping == pc = "raised in build_constituency_id_mapping"
Ended == HasReturned \/ RaisedInJoin \/ RaisedInMapping

\* the pairs whose station document was fetched and whose results document was not
Fetched(doc, maz, taz, got) ==
  \E i \in 1..Len(http_log) :
    /\ http_log[i].doc = doc /\ http_log[i].maz = maz /\ http_log[i].taz = taz
    /\ fetched[i] = got
StationsOnlyPairs ==
  { p \in { << http_log[i].maz, http_log[i].taz >> : i \in 1..Len(http_log) } :
      Fetched("Szavazokorok", p[1], p[2], TRUE) /\ Fetched("SzavkorJkv", p[1], p[2], FALSE) }

\* the row of a table is the row of a station with nothing in its turnout and
\* vote columns
EmptyStationRow(df, r, st) ==
  /\ r[c_maz] = st[c_maz] /\ r[c_taz] = st[c_taz] /\ r[c_sorsz] = st[c_sorsz]
  /\ \A c \in TurnoutCols : Renamed(c) \in df.cols /\ r[Renamed(c)] = NaN
  /\ \A c \in df.cols : StartsWith(c, p_votes) => r[c] = NaN
KeptEmpty(df, st) ==
  \E j \in 1..Len(df.rows) : EmptyStationRow(df, df.rows[j], st)

\* C3: when the run is over, every station of a pair whose results document
\* was not fetched is a row of both tables, with nothing in its turnout and vote
\* columns.
C3_StationsKept ==
  Ended =>
    \A i \in 1..Len(szk_rows) :
      << szk_rows[i][c_maz], szk_rows[i][c_taz] >> \in StationsOnlyPairs =>
        /\ HasReturned
        /\ KeptEmpty(df_results, szk_rows[i])
        /\ KeptEmpty(df_info, szk_rows[i])

\* C4: a reference document that is not fetched gives the empty list, and the
\* run goes on: it does not end in an error of build_constituency_id_mapping.
C4_ReferenceFailureTolerated ==
  pc \notin { "SyntaxError", "start", "stalled in load_global_meta" } =>
    /\ ~ fetched[1] => telep = << >>
    /\ ~ fetched[2] => egyeni_list = << >>
    /\ ~ fetched[3] => listak_list = << >>
    /\ ~ fetched[4] => jlcs = << >>
    /\ ~ fetched[5] => szervezetek = << >>
    /\ ~ RaisedInMapping

\* the votes of the long rows of one station key
VotesOf(long, key) ==
  SeqSum([i \in 1..Len(SelectSeq(long, LAMBDA r : KeyOf(r) = key)) |->
            SelectSeq(long, LAMBDA r : KeyOf(r) = key)[i].votes])
\* the sum of the cells of a row that hold something, over the columns cs
CellSum(row, cs) == SumOver(row, { c \in cs : row[c] # NaN })
\* the pivot has one row for each key of the long rows, and no other, and the
\* cells of a row add up to the votes of its key
PivotKeepsSums(long, wide) ==
  /\ \A i \in 1..Len(long) :
       Cardinality({ j \in 1..Len(wide.rows) :
                       [k \in 1..4 |-> wide.rows[j][Key4[k]]] = KeyOf(long[i]) }) = 1
  /\ \A j \in 1..Len(wide.rows) :
       CellSum(wide.rows[j], wide.cols \ KeySet)
         = VotesOf(long, [k \in 1..4 |-> wide.rows[j][Key4[k]]])
\* the votes of a ballot in a row of the results table
RowVotes(r, prefix) == CellSum(r, { c \in df_results.cols : StartsWith(c, prefix) })
RowKey(r) == << r[c_maz], r[c_taz], r[c_sorsz], r[Renamed(c_evk)] >>

\* C5: when the loop is over, each of the two pivots keeps the sum of the votes
\* of every station key; and in every row of the results table the vote columns
\* of a ballot add up to the votes of the long rows of the row's station.
C5_PivotSumPreserving ==
  /\ LoopOver =>
       /\ PivotKeepsSums(cand_party_rows, df_cand_wide(cand_party_rows))
       /\ PivotKeepsSums(list_rows, df_list_wide(list_rows))
  /\ pc = "returned" =>
       \A j \in 1..Len(df_results.rows) :
         /\ RowVotes(df_results.rows[j], p_votes_individual_party)
              = VotesOf(cand_party_rows, RowKey(df_results.rows[j]))
         /\ RowVotes(df_results.rows[j], p_votes_list)
              = VotesOf(list_rows, RowKey(df_results.rows[j]))

\* a results table with a row whose cell holds the votes of two line items
C5_Witness ==
  /\ pc = "returned" /\ Len(df_results.rows) > 0
  /\ \E i, j \in 1..Len(cand_party_rows) :
       /\ i < j
       /\ KeyOf(cand_party_rows[i]) = KeyOf(cand_party_rows[j])
       /\ cand_party_rows[i].party_col = cand_party_rows[j].party_col
       /\ cand_party_rows[i].votes > 0 /\ cand_party_rows[j].votes > 0
       /\ \E r \in 1..Len(df_results.rows) :
            /\ RowKey(df_results.rows[r]) = KeyOf(cand_party_rows[i])
            /\ df_results.rows[r][cand_party_rows[i].party_col]
                 >= cand_party_rows[i].votes + cand_party_rows[j].votes

NonEmptyOutput == pc = "returned" /\ ~ IsEmpty(df_results)
VoteCols(df) == { c \in df.cols : StartsWith(c, p_votes) }

\* C6 as stated: the columns of the info table are a strict subset of the
\* columns of the results table, and none of them begins with votes_.
C6_InfoStrictSubset ==
  NonEmptyOutput =>
    /\ df_info.cols \subseteq df_results.cols
    /\ df_info.cols # df_results.cols
    /\ VoteCols(df_info) = {}

\* C6 as amended: the columns of the info table are the columns of the results
\* table that do not begin with votes_; the two sets differ if and only if a
\* vote line item was read.
C6_InfoSubset ==
  NonEmptyOutput =>
    /\ df_info.cols = df_results.cols \ VoteCols(df_results)
    /\ VoteCols(df_info) = {}
    /\ (df_info.cols # df_results.cols)
         <=> (Len(cand_party_rows) + Len(list_rows) > 0)

\* tables with vote columns of both ballots
C6_Witness ==
  /\ NonEmptyOutput
  /\ \E c \in df_results.cols \ df_info.cols : StartsWith(c, p_votes_individual_party)
  /\ \E c \in df_results.cols \ df_info.cols : StartsWith(c, p_votes_list)

\* C9: a run that ends without a station row returns two empty tables, which
\* the page answers with its error message, and no run ends in another failure.
C9_EmptyResultOnly ==
  /\ (Ended /\ szk_rows = << >>) =>
       HasReturned /\ IsEmpty(df_results) /\ IsEmpty(df_info) /\ pc # "downloads"
  /\ Ended => (HasReturned /\ (IsEmpty(df_results) => szk_rows = << >>))

\* the pairs of the municipality list in ascending order, cut to test_limit in
\* test mode
AscendingPairs == SortedTuples({ << telep[i].maz, telep[i].taz >> : i \in 1..Len(telep) })
ExpectedPairs ==
  IF test_mode /\ test_limit < Len(AscendingPairs)
    THEN SubSeq(AscendingPairs, 1, test_limit) ELSE AscendingPairs
\* the pairs whose station document was asked for, in the order of the requests
VisitedLog == SelectSeq(http_log, LAMBDA e : e.doc = "Szavazokorok")
Visited == [i \in 1..Len(VisitedLog) |-> << VisitedLog[i].maz, VisitedLog[i].taz >>]
InLoopOrAfter == pc = "loop" \/ HasReturned \/ RaisedInJoin

C10_Visits ==
  InLoopOrAfter =>
    /\ idx <= Len(ExpectedPairs)
    /\ Visited = SubSeq(ExpectedPairs, 1, idx)
    /\ \A i, j \in 1..Len(Visited) : i < j => TupleLess(Visited[i], Visited[j])
    /\ progress = << << 0, 1 >>, << 5, 100 >> >>
                    \o [i \in 1..idx |-> << i, Len(ExpectedPairs) >>]
                    \o (IF pc \in { "st.error", "downloads" } THEN << << 1, 1 >> >>
                                                             ELSE << >>)
    /\ pc # "loop" => idx = Len(ExpectedPairs)

\* C10: the loop visits the pairs of the sorted, deduplicated and, in test mode,
\* truncated list once each in ascending order, reports idx/total once for each
\* pair whatever the fetches give, and comes to its end after the last pair.
C10_LoopVisitsEveryPair ==
  /\ [] C10_Visits
  /\ (pc = "loop") ~> (pc = "loop" /\ idx = Len(ExpectedPairs))

\* the first of two pairs is over, its station request failed, and the run
\* stays in the request for the results document of the second: the bar stands
\* at 1/2
C10_Witness ==
  /\ pc = "stalled in build_df_from_all_pairs" /\ idx = 2 /\ Len(ExpectedPairs) = 2
  /\ Len(fetched) = 7 /\ ~ fetched[6] /\ fetched[7]
  /\ progress = << << 0, 1 >>, << 5, 100 >>, << 1, 2 >> >>

\* the key of a station row, and the rows of the results table with a key
StationKey(st) == << st[c_maz], st[c_taz], st[c_sorsz], st[c_evk] >>
RowsOf(key) == { j \in 1..Len(df_results.rows) : RowKey(df_results.rows[j]) = key }

\* C11: the results table returned has exactly one row for the key of every
\* station read from the station documents, and no row of another key.
C11_OneRowPerStation ==
  pc = "returned" =>
    /\ \A i \in 1..Len(szk_rows) : Cardinality(RowsOf(StationKey(szk_rows[i]))) = 1
    /\ \A j \in 1..Len(df_results.rows) :
         \E i \in 1..Len(szk_rows) : StationKey(szk_rows[i]) = RowKey(df_results.rows[j])

---------------------------------------------------------------------------
(* Properties of canonical_party_name, under SpecCanon *)

UnitedForHungary == PARTY_NAME_MAP[1][2]
UnitedForHungaryTitled ==
  << "U","n","i","t","e","d"," ","F","o","r"," ","H","u","n","g","a","r","y" >>

\* C7 as stated: the label of a key of PARTY_NAME_MAP is its own label.
C7_Idempotent == (raw \in PartyKeys /\ twice # None) => twice = once

\* C7 as amended: the label of a key is its own label, but for "United for
\* Hungary", whose label is "United For Hungary" and has the same slug.
C7_IdempotentButUnited ==
  (raw \in PartyKeys /\ twice # None) =>
    IF once = UnitedForHungary
      THEN twice = UnitedForHungaryTitled /\ slugify(twice) = slugify(once)
      ELSE twice = once

\* FIDESZ-KDNP, labelled Fidesz twice
C7_Witness ==
  /\ raw = PARTY_NAME_MAP[2][1]
  /\ once = PARTY_NAME_MAP[2][2] /\ twice = PARTY_NAME_MAP[2][2]

---------------------------------------------------------------------------
(* Properties of slugify, under SpecSlug *)

\* the characters of which slugify leaves nothing wherever they stand; white
\* space other than the blank is removed at the two ends of the label only
Vanishing ==
  { SlugToUnderscore[i] : i \in 1..Len(SlugToUnderscore) }
    \cup { SlugDropped[i] : i \in 1..Len(SlugDropped) } \cup { "_" }
Trimmed == IF name = None THEN << >> ELSE Strip(name, Whitespace)

\* C8: the slug is not empty and neither begins nor ends with "_"; it is
\* "unknown" for None and for a label of which nothing would be left.
C8_SlugWellFormed ==
  slug # None =>
    /\ slug # << >>
    /\ slug[1] # "_" /\ slug[Len(slug)] # "_"
    /\ name = None => slug = Unknown
    /\ (name # None /\ \A i \in 1..Len(Trimmed) : Trimmed[i] \in Vanishing)
         => slug = Unknown

\* a label between a hyphen and an underscore, and a label of which nothing is left
C8_Witness ==
  /\ slug # None /\ name # None /\ Len(name) >= 3
  /\ \/ name[1] = "-" /\ name[Len(name)] = "_" /\ slug = << "a" >>
     \/ name = << "U+00A0", "-", "," >> /\ slug = Unknown

=============================================================================
